---- MODULE Spec2Model ----
(***************************************************************************)
(* Streaming moving averages of ta-rs: the linearly weighted moving        *)
(* average (LWMA), the relative moving average (RMA) and the MovingAverage *)
(* selector that dispatches among Simple, Exponential, Relative, Linear.   *)
(*                                                                         *)
(* f64 values are modelled as exact rationals <<n, d>> in lowest terms     *)
(* (d > 0).  The inputs drawn are small integers, for which the sums and   *)
(* products of the code are exact in f64 and a quotient is determined by   *)
(* its exact value; rounding error of f64 is outside this model.           *)
(***************************************************************************)
EXTENDS Integers, Sequences, FiniteSets, TLC

\* ------------------------------------------------------------------ bounds
\* Largest period passed to a constructor (0 is the rejected period).
MaxPeriod == 3
\* Largest number of samples fed between two resets in Spec.
MaxFed == 4
\* Inputs are the integers 0..MaxVal.
MaxVal == 2
\* The same two bounds for SpecPair, which runs two instances side by side
\* and puts no bound on the number of samples fed.
PairMaxPeriod == 3
PairMaxVal == 1

\* ------------------------------------------------------------ f64 (exact)
Abs(n) == IF n < 0 THEN -n ELSE n

RECURSIVE GCD(_, _)
GCD(a, b) == IF b = 0 THEN a ELSE GCD(b, a % b)

\* The rational n/d in lowest terms with a positive denominator.
Norm(n, d) ==
    LET g == GCD(Abs(n), Abs(d))
        s == IF d < 0 THEN -1 ELSE 1
    IN  <<(s * n) \div g, (s * d) \div g>>

F(i) == <<i, 1>>
FAdd(a, b) == Norm(a[1] * b[2] + b[1] * a[2], a[2] * b[2])
FSub(a, b) == Norm(a[1] * b[2] - b[1] * a[2], a[2] * b[2])
FMul(a, b) == Norm(a[1] * b[1], a[2] * b[2])
FDiv(a, b) == Norm(a[1] * b[2], a[2] * b[1])

Values == {F(i) : i \in 0..MaxVal}
PairValues == {F(i) : i \in 0..PairMaxVal}

\* The value of a call that returns nothing, and of no call yet.
None == <<>>

\* ------------------------------------------------------------ Result<T>
Ok(v) == [ok |-> TRUE, v |-> v]
Err(e) == [ok |-> FALSE, err |-> e]
InvalidParameter == "InvalidParameter"

\* --------------------------------------- LinearlyWeightedMovingAverage
LWMA_new_mut(period) ==
    IF period <= 1
    THEN Err(InvalidParameter)
    ELSE Ok([period |-> period, index |-> 0, count |-> 0,
             weighted_sum |-> F(0), sum |-> F(0),
             deque |-> [i \in 0..(period - 1) |-> F(0)]])

LWMA_new(period) ==
    IF period = 0
    THEN Err(InvalidParameter)
    ELSE Ok([period |-> period, index |-> 0, count |-> 0,
             weighted_sum |-> F(0), sum |-> F(0),
             deque |-> [i \in 0..(period - 1) |-> F(0)]])

LWMA_period(s) == s.period

\* self.index after the write.
LWMA_next_index(s) == IF s.index + 1 < s.period THEN s.index + 1 ELSE 0

\* self.count after the call.
LWMA_next_count(s) == IF s.count < s.period THEN s.count + 1 ELSE s.count

\* Mutants of the weighted-sum update: the new sample entering at the old
\* count while the window fills, and the steady-state recurrence reading
\* the sum after it was rolled forward.
LWMA_next_weighted_sum_warm_mut(s, input) ==
    IF s.count < s.period
    THEN FAdd(s.weighted_sum, FMul(F(s.count), input))
    ELSE FAdd(FSub(s.weighted_sum, s.sum), FMul(F(s.period), input))

LWMA_next_weighted_sum_full_mut(s, input) ==
    IF s.count < s.period
    THEN FAdd(s.weighted_sum, FMul(F(s.count + 1), input))
    ELSE FAdd(FSub(s.weighted_sum,
                   FAdd(FSub(s.sum, s.deque[s.index]), input)),
              FMul(F(s.period), input))

\* self.weighted_sum after the call (self.sum is still the old sum here).
LWMA_next_weighted_sum(s, input) ==
    IF s.count < s.period
    THEN FAdd(s.weighted_sum, FMul(F(s.count + 1), input))
    ELSE FAdd(FSub(s.weighted_sum, s.sum), FMul(F(s.period), input))

\* Mutant: the value leaving the window is not subtracted.
LWMA_next_sum_mut(s, input) == FAdd(s.sum, input)

\* self.sum after the call; old_val is the slot about to be overwritten.
LWMA_next_sum(s, input) ==
    LET old_val == s.deque[s.index]
    IN  FAdd(FSub(s.sum, old_val), input)

\* next: the new state and the value returned.
LWMA_next(s, input) ==
    LET count == LWMA_next_count(s)
        weighted_sum == LWMA_next_weighted_sum(s, input)
        weight == FDiv(F(count * (count + 1)), F(2))
    IN  [s |-> [period |-> s.period,
                index |-> LWMA_next_index(s),
                count |-> count,
                weighted_sum |-> weighted_sum,
                sum |-> LWMA_next_sum(s, input),
                deque |-> [s.deque EXCEPT ![s.index] = input]],
         out |-> FDiv(weighted_sum, weight)]

\* Mutants of reset: the buffer is left as it was; the index is left as it was.
LWMA_reset_deque_mut(s) ==
    [s EXCEPT !.index = 0, !.count = 0, !.sum = F(0), !.weighted_sum = F(0)]

LWMA_reset_index_mut(s) ==
    [s EXCEPT !.count = 0, !.sum = F(0), !.weighted_sum = F(0),
              !.deque = [i \in 0..(s.period - 1) |-> F(0)]]

LWMA_reset(s) ==
    [s EXCEPT !.index = 0, !.count = 0, !.sum = F(0), !.weighted_sum = F(0),
              !.deque = [i \in 0..(s.period - 1) |-> F(0)]]

LWMA_fmt(s) == "SMA(" \o ToString(s.period) \o ")"

\* ------------------------------------------------ SimpleMovingAverage
\* The crate's simple moving average (indicators::SimpleMovingAverage): the
\* arithmetic mean of the last min(count, period) inputs over the same kind
\* of circular buffer, labelled SMA.
SMA_new(period) ==
    IF period = 0
    THEN Err(InvalidParameter)
    ELSE Ok([period |-> period, index |-> 0, count |-> 0, sum |-> F(0),
             deque |-> [i \in 0..(period - 1) |-> F(0)]])

SMA_period(s) == s.period

SMA_next(s, input) ==
    LET old_val == s.deque[s.index]
        count == IF s.count < s.period THEN s.count + 1 ELSE s.count
        sum == FAdd(FSub(s.sum, old_val), input)
    IN  [s |-> [period |-> s.period,
                index |-> IF s.index + 1 < s.period THEN s.index + 1 ELSE 0,
                count |-> count, sum |-> sum,
                deque |-> [s.deque EXCEPT ![s.index] = input]],
         out |-> FDiv(sum, F(count))]

SMA_reset(s) ==
    [s EXCEPT !.index = 0, !.count = 0, !.sum = F(0),
              !.deque = [i \in 0..(s.period - 1) |-> F(0)]]

SMA_fmt(s) == "SMA(" \o ToString(s.period) \o ")"

\* --------------------------------------------- ExponentialMovingAverage
\* The crate's exponential moving average (indicators::
\* ExponentialMovingAverage): the first output is the first input, each
\* later one k * input + (1 - k) * previous; k defaults to 2 / (period + 1)
\* (the crate example in lib.rs: period 3 on 2, 5, 1, 6.25 gives
\* 2, 3.5, 2.25, 4.25).
EMA_with_k(period, k) ==
    IF period = 0
    THEN Err(InvalidParameter)
    ELSE Ok([period |-> period, k |-> k, current |-> F(0), is_new |-> TRUE])

EMA_new(period) == EMA_with_k(period, FDiv(F(2), F(period + 1)))

EMA_period(s) == s.period

EMA_next(s, input) ==
    LET current == IF s.is_new
                   THEN input
                   ELSE FAdd(FMul(s.k, input),
                             FMul(FSub(F(1), s.k), s.current))
    IN  [s |-> [s EXCEPT !.current = current, !.is_new = FALSE],
         out |-> current]

EMA_reset(s) == [s EXCEPT !.current = F(0), !.is_new = TRUE]

EMA_fmt(s) == "EMA(" \o ToString(s.period) \o ")"

\* ------------------------------------------------ RelativeMovingAverage
\* Mutant: the collaborator's default smoothing constant.
RMA_new_mut(period) ==
    IF period = 0
    THEN Err(InvalidParameter)
    ELSE Ok([ema |-> EMA_new(period).v])

\* with_k(..).unwrap(): period is not 0 here, so with_k returned Ok.
RMA_new(period) ==
    IF period = 0
    THEN Err(InvalidParameter)
    ELSE Ok([ema |-> EMA_with_k(period, FDiv(F(1), F(period))).v])

RMA_period(s) == EMA_period(s.ema)

RMA_next(s, input) ==
    LET r == EMA_next(s.ema, input)
    IN  [s |-> [ema |-> r.s], out |-> r.out]

RMA_reset(s) == [ema |-> EMA_reset(s.ema)]

RMA_fmt(s) == "RMA(" \o ToString(EMA_period(s.ema)) \o ")"

\* --------------------------------------------------------- MovingAverage
MovingAverageType == {"Simple", "Exponential", "Relative", "Linear"}

\* The variant's constructor; `?` hands its error on unchanged.
Variant_new(type, period) ==
    CASE type = "Simple" -> SMA_new(period)
      [] type = "Exponential" -> EMA_new(period)
      [] type = "Relative" -> RMA_new(period)
      [] type = "Linear" -> LWMA_new(period)

\* Mutant: the Linear arm builds the Simple variant.
MA_new_mut(type, period) ==
    LET t == IF type = "Linear" THEN "Simple" ELSE type
        r == Variant_new(t, period)
    IN  IF r.ok THEN Ok([tag |-> t, x |-> r.v]) ELSE r

MA_new(type, period) ==
    LET r == Variant_new(type, period)
    IN  IF r.ok THEN Ok([tag |-> type, x |-> r.v]) ELSE r

MA_period(m) ==
    CASE m.tag = "Simple" -> SMA_period(m.x)
      [] m.tag = "Exponential" -> EMA_period(m.x)
      [] m.tag = "Relative" -> RMA_period(m.x)
      [] m.tag = "Linear" -> LWMA_period(m.x)

MA_next(m, input) ==
    LET r == CASE m.tag = "Simple" -> SMA_next(m.x, input)
               [] m.tag = "Exponential" -> EMA_next(m.x, input)
               [] m.tag = "Relative" -> RMA_next(m.x, input)
               [] m.tag = "Linear" -> LWMA_next(m.x, input)
    IN  [s |-> [tag |-> m.tag, x |-> r.s], out |-> r.out]

\* Default: the Simple variant with period 9.
DefaultPeriod == 9

\* Mutant: reset puts the default instance in place of the current one.
MA_reset_mut(m) == MA_new("Simple", DefaultPeriod).v

MA_reset(m) ==
    [tag |-> m.tag,
     x |-> CASE m.tag = "Simple" -> SMA_reset(m.x)
             [] m.tag = "Exponential" -> EMA_reset(m.x)
             [] m.tag = "Relative" -> RMA_reset(m.x)
             [] m.tag = "Linear" -> LWMA_reset(m.x)]

MA_fmt(m) == "MA(" \o ToString(MA_period(m)) \o ")"

\* ------------------------------------------- a standalone indicator
\* The indicator named by `type`, used directly instead of through the
\* selector.
Alone_period(type, s) ==
    CASE type = "Simple" -> SMA_period(s)
      [] type = "Exponential" -> EMA_period(s)
      [] type = "Relative" -> RMA_period(s)
      [] type = "Linear" -> LWMA_period(s)

Alone_next(type, s, input) ==
    CASE type = "Simple" -> SMA_next(s, input)
      [] type = "Exponential" -> EMA_next(s, input)
      [] type = "Relative" -> RMA_next(s, input)
      [] type = "Linear" -> LWMA_next(s, input)

Alone_reset(type, s) ==
    CASE type = "Simple" -> SMA_reset(s)
      [] type = "Exponential" -> EMA_reset(s)
      [] type = "Relative" -> RMA_reset(s)
      [] type = "Linear" -> LWMA_reset(s)

Alone_fmt(type, s) ==
    CASE type = "Simple" -> SMA_fmt(s)
      [] type = "Exponential" -> EMA_fmt(s)
      [] type = "Relative" -> RMA_fmt(s)
      [] type = "Linear" -> LWMA_fmt(s)

\* ------------------------------------------------------------------ state
VARIABLES
    args,        \* the arguments given to the constructors: [type, period]
    ma,          \* Result<MovingAverage> of MovingAverage::new(type, period)
    alone,       \* Result of the standalone constructor named by type
    out_ma,      \* what the selector's last call returned
    out_alone,   \* what the standalone indicator's last call returned
    fed,         \* the inputs fed since construction or the last reset
    didReset,    \* reset has been called
    preFed,      \* how many inputs had been fed when reset was last called
    a, b,        \* SpecPair: two Result<LinearlyWeightedMovingAverage>
    winA, winB,  \* SpecPair: the last (at most period) inputs of each
    outA, outB   \* SpecPair: what the last call on each returned

mainVars == <<args, ma, alone, out_ma, out_alone, fed, didReset, preFed>>
pairVars == <<a, b, winA, winB, outA, outB>>
vars == <<mainVars, pairVars>>

\* The part of the state a specification does not use: nothing built.
MainIdle ==
    /\ args = [type |-> "Linear", period |-> 0]
    /\ ma = MA_new("Linear", 0)
    /\ alone = LWMA_new(0)
    /\ out_ma = None /\ out_alone = None
    /\ fed = <<>> /\ didReset = FALSE /\ preFed = 0

PairIdle ==
    /\ a = LWMA_new(0) /\ b = LWMA_new(0)
    /\ winA = <<>> /\ winB = <<>>
    /\ outA = None /\ outB = None

\* ---------------------------------- Spec: the selector beside its variant
Init ==
    /\ \E type \in MovingAverageType, period \in 0..MaxPeriod :
          /\ args = [type |-> type, period |-> period]
          /\ ma = MA_new(type, period)
          /\ alone = Variant_new(type, period)
    /\ out_ma = None /\ out_alone = None
    /\ fed = <<>> /\ didReset = FALSE /\ preFed = 0
    /\ PairIdle

\* next(input) on both; a failed construction left nothing to call it on.
DoNext(input) ==
    /\ ma.ok /\ alone.ok
    /\ Len(fed) < MaxFed
    /\ LET rm == MA_next(ma.v, input)
           ra == Alone_next(args.type, alone.v, input)
       IN  /\ ma' = Ok(rm.s)
           /\ out_ma' = rm.out
           /\ alone' = Ok(ra.s)
           /\ out_alone' = ra.out
    /\ fed' = Append(fed, input)
    /\ UNCHANGED <<args, didReset, preFed, pairVars>>

\* reset() on both.
DoReset ==
    /\ ma.ok /\ alone.ok
    /\ ma' = Ok(MA_reset(ma.v))
    /\ alone' = Ok(Alone_reset(args.type, alone.v))
    /\ out_ma' = None /\ out_alone' = None
    /\ fed' = <<>>
    /\ didReset' = TRUE
    /\ preFed' = Len(fed)
    /\ UNCHANGED <<args, pairVars>>

Next ==
    \/ \E input \in Values : DoNext(input)
    \/ DoReset

Spec == Init /\ [][Next]_vars

\* ------------------------- SpecPair: two LWMA instances of one period
LastN(seq, n) ==
    IF Len(seq) <= n THEN seq ELSE SubSeq(seq, Len(seq) - n + 1, Len(seq))

PairInit ==
    /\ \E period \in 1..PairMaxPeriod :
          /\ a = LWMA_new(period)
          /\ b = LWMA_new(period)
    /\ winA = <<>> /\ winB = <<>>
    /\ outA = None /\ outB = None
    /\ MainIdle

NextA(input) ==
    /\ LET r == LWMA_next(a.v, input)
       IN  a' = Ok(r.s) /\ outA' = r.out
    /\ winA' = LastN(Append(winA, input), a.v.period)
    /\ UNCHANGED <<b, winB, outB, mainVars>>

NextB(input) ==
    /\ LET r == LWMA_next(b.v, input)
       IN  b' = Ok(r.s) /\ outB' = r.out
    /\ winB' = LastN(Append(winB, input), b.v.period)
    /\ UNCHANGED <<a, winA, outA, mainVars>>

ResetA ==
    /\ a' = Ok(LWMA_reset(a.v))
    /\ winA' = <<>> /\ outA' = None
    /\ UNCHANGED <<b, winB, outB, mainVars>>

ResetB ==
    /\ b' = Ok(LWMA_reset(b.v))
    /\ winB' = <<>> /\ outB' = None
    /\ UNCHANGED <<a, winA, outA, mainVars>>

PairNext ==
    \/ \E input \in PairValues : NextA(input)
    \/ \E input \in PairValues : NextB(input)
    \/ ResetA
    \/ ResetB

SpecPair == PairInit /\ [][PairNext]_vars

\* ------------------------------------------------- reference computations
\* n * (n + 1) / 2
Triangular(n) == (n * (n + 1)) \div 2

\* sum of i * seq[i], the oldest input first: computed from scratch.
RECURSIVE WeightedSum(_)
WeightedSum(seq) ==
    IF seq = <<>>
    THEN F(0)
    ELSE FAdd(WeightedSum(SubSeq(seq, 1, Len(seq) - 1)),
              FMul(F(Len(seq)), seq[Len(seq)]))

\* The triangular-weighted average of seq (not empty).
TriangularAverage(seq) == FDiv(WeightedSum(seq), F(Triangular(Len(seq))))

\* alpha * input + (1 - alpha) * previous output, the first output being
\* the first input (seq not empty).
RECURSIVE Exponential(_, _)
Exponential(alpha, seq) ==
    IF Len(seq) = 1
    THEN seq[1]
    ELSE FAdd(FMul(alpha, seq[Len(seq)]),
              FMul(FSub(F(1), alpha),
                   Exponential(alpha, SubSeq(seq, 1, Len(seq) - 1))))

\* What a standalone indicator in state s returns for each input of seq.
RECURSIVE Outputs(_, _, _)
Outputs(type, s, seq) ==
    IF seq = <<>>
    THEN <<>>
    ELSE LET r == Alone_next(type, s, seq[1])
         IN  <<r.out>> \o Outputs(type, r.s, SubSeq(seq, 2, Len(seq)))

\* The same through the selector.
RECURSIVE MA_Outputs(_, _)
MA_Outputs(m, seq) ==
    IF seq = <<>>
    THEN <<>>
    ELSE LET r == MA_next(m, seq[1])
         IN  <<r.out>> \o MA_Outputs(r.s, SubSeq(seq, 2, Len(seq)))

LastOr(seq, none) == IF seq = <<>> THEN none ELSE seq[Len(seq)]

RECURSIVE SumOver(_, _)
SumOver(f, n) == IF n = 0 THEN F(0) ELSE FAdd(SumOver(f, n - 1), f[n - 1])

Min(x, y) == IF x <= y THEN x ELSE y

\* ------------------------------------------------------------------ claims

\* C1: once at least period samples have been fed since construction or the
\* last reset, LWMA's weighted_sum equals the sum of i * x_i recomputed from
\* scratch over the last period inputs and next returned their
\* triangular-weighted average (oldest weight 1, newest weight period),
\* however often the buffer has wrapped; the test's period-4 run gives
\* 4, 14/3, 32/6, 5.6, 5.9, 6, 4.4.
C1_SteadyStateIsBruteForce ==
    /\ \A i \in {<<a, winA, outA>>, <<b, winB, outB>>} :
          (i[1].ok /\ i[2] # <<>> /\ Len(i[2]) = i[1].v.period)
             => /\ i[1].v.weighted_sum = WeightedSum(i[2])
                /\ i[3] = TriangularAverage(i[2])
    /\ Outputs("Linear", LWMA_new(4).v,
               <<F(4), F(5), F(6), F(6), F(6), F(6), F(2)>>)
         = <<F(4), <<14, 3>>, <<16, 3>>, <<28, 5>>, <<59, 10>>, F(6), <<22, 5>>>>

\* C1 witness: a period-3 window that has wrapped past its start (count is
\* 3 and the write index is 2: at least five samples), holding 1, 0, 1.
C1_Witness ==
    /\ a.ok /\ a.v.period = 3 /\ a.v.count = 3 /\ a.v.index = 2
    /\ winA = <<F(1), F(0), F(1)>>
    /\ outA = <<2, 3>>

\* C2: the k-th call to LWMA next since construction or the last reset,
\* 1 <= k <= period, returns sum_{i=1..k} i * x_i / (k * (k + 1) / 2).
C2_WarmUpIsTriangular ==
    (args.type = "Linear" /\ alone.ok /\ fed # <<>> /\ Len(fed) <= args.period)
       => out_alone = TriangularAverage(fed)

\* C2 witness: the third call after a reset on a period-3 LWMA.
C2_Witness ==
    /\ args.type = "Linear" /\ args.period = 3 /\ alone.ok
    /\ didReset /\ preFed > 0
    /\ fed = <<F(1), F(2), F(0)>>
    /\ out_alone = <<5, 6>>

\* C3: a constructor given period 0 returns InvalidParameter and no
\* instance, for LWMA, RMA and the selector with each tag; given period 1 it
\* returns an instance.
C3_ConstructionValidity ==
    /\ args.period = 0
          => /\ ma = Err(InvalidParameter)
             /\ alone = Err(InvalidParameter)
    /\ args.period = 1 => (ma.ok /\ alone.ok)
    /\ LWMA_new(0) = Err(InvalidParameter) /\ LWMA_new(1).ok
    /\ RMA_new(0) = Err(InvalidParameter) /\ RMA_new(1).ok
    /\ \A type \in MovingAverageType :
          MA_new(type, 0) = Err(InvalidParameter) /\ MA_new(type, 1).ok

\* C3 witness: the selector's Relative constructor was given period 0.
C3_Witness ==
    /\ args.type = "Relative" /\ args.period = 0
    /\ ~ma.ok /\ ~alone.ok

\* C4: after reset, whatever was fed before it, feeding S gives the outputs
\* a freshly constructed instance of the same period gives for S.
C4_ResetRestoresFresh ==
    (didReset /\ ma.ok /\ alone.ok)
       => /\ out_alone
               = LastOr(Outputs(args.type,
                                Variant_new(args.type, args.period).v, fed),
                        None)
          /\ out_ma
               = LastOr(MA_Outputs(MA_new(args.type, args.period).v, fed),
                        None)

\* C4 witness: a period-2 LWMA reset after its buffer had wrapped, then fed
\* enough to wrap again.
C4_Witness ==
    /\ args.type = "Linear" /\ args.period = 2 /\ ma.ok
    /\ didReset /\ preFed > 2
    /\ Len(fed) = 3 /\ out_ma # None

\* C5: at every step the selector returned what the standalone indicator
\* named by its tag returned, and reports the same period.
C5_SelectorForwards ==
    /\ ma.ok = alone.ok
    /\ ma.ok => /\ out_ma = out_alone
                /\ MA_period(ma.v) = Alone_period(args.type, alone.v)

\* C5 witness: the Linear selector after a reset and two more samples, where
\* the linear and the simple average differ.
C5_Witness ==
    /\ args.type = "Linear" /\ ma.ok /\ didReset /\ preFed > 0
    /\ fed = <<F(0), F(1)>> /\ out_ma = <<2, 3>>

C7_OldSamplesHaveNoInfluence ==
    (a.ok /\ b.ok /\ winA # <<>> /\ winA = winB /\ Len(winA) = a.v.period)
       => outA = outB

\* C7 witness: equal windows on two period-3 instances that have discarded
\* different numbers of samples (their write indexes differ).
C7_Witness ==
    /\ a.ok /\ b.ok /\ a.v.period = 3
    /\ winA = <<F(0), F(1), F(1)>> /\ winA = winB
    /\ a.v.index = 1 /\ b.v.index = 2
    /\ outA # None /\ outB # None

\* The abbreviation each algorithm is documented under.
Abbrev(type) ==
    CASE type = "Simple" -> "SMA"
      [] type = "Exponential" -> "EMA"
      [] type = "Relative" -> "RMA"
      [] type = "Linear" -> "LWMA"

\* C8: every label is <abbreviation of the indicator's own algorithm>(period):
\* LWMA's names the linearly weighted algorithm and differs from the simple
\* average's, RMA's is RMA(period), the selector's is MA(period).
C8_LabelNamesOwnAlgorithm ==
    (ma.ok /\ alone.ok)
       => /\ Alone_fmt(args.type, alone.v)
               = Abbrev(args.type) \o "(" \o ToString(args.period) \o ")"
          /\ args.type = "Linear"
                => LWMA_fmt(alone.v) # SMA_fmt(SMA_new(args.period).v)
          /\ MA_fmt(ma.v) = "MA(" \o ToString(args.period) \o ")"

\* C9: the selector's tag and period(), and the standalone indicator's
\* period(), are those given to the constructor, whatever was called since.
C9_TagAndPeriodFixed ==
    (ma.ok /\ alone.ok)
       => /\ ma.v.tag = args.type
          /\ MA_period(ma.v) = args.period
          /\ Alone_period(args.type, alone.v) = args.period

\* C9 witness: a Linear selector of period 2 after a reset and three samples.
C9_Witness ==
    /\ args.type = "Linear" /\ args.period = 2 /\ ma.ok
    /\ didReset /\ preFed > 0 /\ Len(fed) = 3

\* The input resident in slot j after fed: the latest i with (i - 1) % period
\* = j among the last period inputs, zero when there is none.
Resident(period, j) ==
    LET is == {i \in 1..Len(fed) : (i - 1) % period = j /\ i > Len(fed) - period}
    IN  IF is = {} THEN F(0) ELSE fed[CHOOSE i \in is : TRUE]

\* C10: in every state of an LWMA, 0 <= index < period and the buffer has
\* period slots, index is the number of samples fed since construction or the
\* last reset modulo period, count is the smaller of that number and period,
\* the buffer holds the last count inputs in circular order and zero
\* elsewhere, and sum is the sum of the buffer.
C10_RepresentationInvariant ==
    (args.type = "Linear" /\ alone.ok)
       => LET s == alone.v
          IN  /\ DOMAIN s.deque = 0..(s.period - 1)
              /\ 0 <= s.index /\ s.index < s.period
              /\ s.index = Len(fed) % s.period
              /\ s.count = Min(Len(fed), s.period)
              /\ \A j \in 0..(s.period - 1) : s.deque[j] = Resident(s.period, j)
              /\ s.sum = SumOver(s.deque, s.period)

\* C10 witness: a period-3 LWMA, reset part-way through its buffer and fed
\* four samples since.
C10_Witness ==
    /\ args.type = "Linear" /\ args.period = 3 /\ alone.ok
    /\ didReset /\ preFed % 3 # 0
    /\ fed = <<F(1), F(2), F(0), F(2)>>
    /\ alone.v.index = 1 /\ alone.v.sum = F(4)
====
